---- MODULE Spec2Model ----
(***************************************************************************)
(* Model of demo/actions.py: the webhook actions of the sales bot.  Each   *)
(* action is a synchronous handler run(dispatcher, tracker, domain) that   *)
(* reads the tracker (slots, latest message) and returns a list of events. *)
(* Python values are represented by the text of their literal, so that     *)
(* Python truthiness (`if not x`) can be modelled: "None", "''", "0",      *)
(* "False" are the falsy values used here.                                 *)
(***************************************************************************)
EXTENDS Integers, Sequences, FiniteSets, TLC

VARIABLES action, slots, latest_message, events, utterances, raised, calls,
          successes, submitted

vars == <<action, slots, latest_message, events, utterances, raised, calls,
          successes, submitted>>

(* ------------------------------ bounds -------------------------------- *)

\* longest entity list of a turn handed to a single handler
MaxEntities == 2
\* longest entity list of a turn of the multi-turn form run
FormMaxEntities == 1
\* successful form turns explored in the multi-turn form run
MaxTurns == 8

(* --------------------------- Python values ---------------------------- *)

None == "None"
PyTrue == "True"
PyFalse == "False"

\* `if x:` / `if not x:` on the values used in this module
Truthy(v) == v \notin {"None", "''", "0", "False"}

\* bool -> Python literal
PyBool(b) == IF b THEN PyTrue ELSE PyFalse

(* ------------------------------ tracker ------------------------------- *)

REQUESTED_SLOT == "requested_slot"

required_slots ==
    <<"job_function", "use_case", "budget", "person_name", "company_name", "email">>

RequiredSlotSet == {required_slots[i] : i \in 1..Len(required_slots)}

SlotNames == RequiredSlotSet \cup {"company", "subscribed", "data_stored", REQUESTED_SLOT}

EmptySlots == [s \in SlotNames |-> None]

EntityTypes == {"jobfunction", "number", "amount-of-money", "name", "email", "company", "other"}

\* entity values: two truthy strings, the number 0 and the empty string
EntityValues == {"'acme'", "'500'", "0", "''"}

Texts == {"'hello there'", "''"}

Entities == [entity : EntityTypes, value : EntityValues]

SeqsUpTo(S, n) == UNION {[1..k -> S] : k \in 0..n}

Messages(n) == [text : Texts, entities : SeqsUpTo(Entities, n)]

\* the messages a single handler is invoked with
TurnMessages == Messages(MaxEntities)

EmptyMessage == [text |-> "''", entities |-> <<>>]

\* tracker.get_latest_entity_values(entity_type): the values of the entities of
\* that type in the latest message, in order
get_latest_entity_values(msg, entity_type) ==
    LET matching == SelectSeq(msg.entities, LAMBDA e : e.entity = entity_type)
    IN  [i \in 1..Len(matching) |-> matching[i].value]

\* next(iterator, default)
next(values, default) == IF values = <<>> THEN default ELSE Head(values)

(* ------------------------------- events ------------------------------- *)

SlotSet(key, value) == [event |-> "slot", name |-> key, value |-> value]
UserUtteranceReverted == [event |-> "rewind", name |-> None, value |-> None]

NoError == [type |-> None, slot |-> None, action |-> None]
ActionExecutionError(slot, action_name) ==
    [type |-> "ActionExecutionError", slot |-> slot, action |-> action_name]
AttributeError == [type |-> "AttributeError", slot |-> None, action |-> None]

\* what one run of a handler produces
Result(ev, utt, err, cl) == [events |-> ev, utterances |-> utt, raised |-> err, calls |-> cl]

Returns(ev) == Result(ev, <<>>, NoError, <<>>)

(* ------------------------- slot extractors ---------------------------- *)

\* ActionStoreName.run
ActionStoreName_run(msg) ==
    LET person_name == next(get_latest_entity_values(msg, "name"), None)
    IN  IF ~Truthy(person_name)
        THEN Returns(<<SlotSet("person_name", msg.text)>>)
        ELSE Returns(<<SlotSet("person_name", person_name)>>)

\* ActionStoreCompany.run
ActionStoreCompany_run(msg) ==
    LET company == next(get_latest_entity_values(msg, "company"), None)
    IN  IF ~Truthy(company)
        THEN Returns(<<SlotSet("company_name", msg.text)>>)
        ELSE Returns(<<SlotSet("company_name", company)>>)

\* ActionStoreJob.run
ActionStoreJob_run(msg) ==
    LET jobfunction == next(get_latest_entity_values(msg, "jobfunction"), None)
    IN  IF ~Truthy(jobfunction)
        THEN Returns(<<SlotSet("job_function", msg.text)>>)
        ELSE Returns(<<SlotSet("job_function", jobfunction)>>)

\* ActionStoreBudget.run: number, then amount-of-money, then the raw text
ActionStoreBudget_run(msg) ==
    LET budget1 == next(get_latest_entity_values(msg, "number"), None)
        budget2 == IF ~Truthy(budget1)
                   THEN next(get_latest_entity_values(msg, "amount-of-money"), None)
                   ELSE budget1
        budget3 == IF ~Truthy(budget2) THEN msg.text ELSE budget2
    IN  Returns(<<SlotSet("budget", budget3)>>)

\* ActionStoreUsecase.run
ActionStoreUsecase_run(msg) == Returns(<<SlotSet("use_case", msg.text)>>)

EmailPrompt == "We need your email, please enter a valid one."

\* ActionStoreEmail.run
ActionStoreEmail_run(msg) ==
    LET email == next(get_latest_entity_values(msg, "email"), None)
    IN  IF ~Truthy(email)
        THEN Result(<<UserUtteranceReverted>>, <<EmailPrompt>>, NoError, <<>>)
        ELSE Returns(<<SlotSet("email", email)>>)

(* ----------------------- side-effecting actions ----------------------- *)

mailchimp_list == "config.mailchimp_list"

\* values the email slot can hold when the subscription action runs
EmailSlotValues == {None, "''", "'a@b.com'"}

SubscribedValues == {None, PyTrue, PyFalse}

\* one call of an external service
Call(service, args, outcome) == [service |-> service, args |-> args, outcome |-> outcome]

\* variant: the guard tests `email is not None` instead of the value's truth
ActionSubscribeNewsletter_run_NotNone(tracker_slots, api_result) ==
    LET email == tracker_slots["email"]
    IN  IF email # None
        THEN Result(<<SlotSet("subscribed", PyBool(api_result))>>, <<>>, NoError,
                    <<Call("subscribe_user", <<mailchimp_list, email>>, PyBool(api_result))>>)
        ELSE Returns(<<>>)

\* ActionSubscribeNewsletter.run; api_result is what client.subscribe_user returns
ActionSubscribeNewsletter_run(tracker_slots, api_result) ==
    LET email == tracker_slots["email"]
    IN  IF Truthy(email)
        THEN Result(<<SlotSet("subscribed", PyBool(api_result))>>, <<>>, NoError,
                    <<Call("subscribe_user", <<mailchimp_list, email>>, PyBool(api_result))>>)
        ELSE Returns(<<>>)

\* outcomes of gdrive.store_data(sales_info): it returns, or raises an exception
\* object that has a `message` attribute, or one that has none
StoreOutcomes == {"ok", "raises_with_message", "raises_without_message"}

Dates == {"'03/11/2026'"}

\* ActionStoreSalesInfo.run
ActionStoreSalesInfo_run(tracker_slots, date, outcome) ==
    LET budget == tracker_slots["budget"]
        company == tracker_slots["company_name"]
        email == tracker_slots["email"]
        jobfunction == tracker_slots["job_function"]
        name == tracker_slots["person_name"]
        use_case == tracker_slots["use_case"]
        sales_info == <<company, use_case, budget, date, name, jobfunction, email>>
        store_data == <<Call("store_data", sales_info, outcome)>>
    IN  CASE outcome = "ok" ->
               Result(<<SlotSet("data_stored", PyTrue)>>, <<>>, NoError, store_data)
          [] outcome = "raises_with_message" ->
               \* except branch: e.message is formatted and logged
               Result(<<SlotSet("data_stored", PyFalse)>>, <<>>, NoError, store_data)
          [] outcome = "raises_without_message" ->
               \* except branch: evaluating e.message raises AttributeError,
               \* which leaves run() before its return statement
               Result(<<>>, <<>>, AttributeError, store_data)

(* ------------------------------ sales form ---------------------------- *)

ActionSalesForm_name == "action_sales_form"

\* variant: the budget branch accepts only the number entity
ValidateEntity_BudgetNumberOnly(slot_to_fill, e) ==
    IF slot_to_fill = "job_function"
    THEN IF e.entity = "jobfunction" THEN <<SlotSet("job_function", e.value)>> ELSE <<>>
    ELSE IF slot_to_fill = "budget"
    THEN IF e.entity = "number" THEN <<SlotSet("budget", e.value)>> ELSE <<>>
    ELSE IF slot_to_fill = "person_name"
    THEN IF e.entity = "name" THEN <<SlotSet("person_name", e.value)>> ELSE <<>>
    ELSE IF slot_to_fill = "email"
    THEN IF e.entity = "email" THEN <<SlotSet("email", e.value)>> ELSE <<>>
    ELSE IF slot_to_fill = "company_name"
    THEN IF e.entity = "company" THEN <<SlotSet("company", e.value)>> ELSE <<>>
    ELSE <<>>

\* body of the for loop of validate: the events appended for entity e
ValidateEntity(slot_to_fill, e) ==
    IF slot_to_fill = "job_function"
    THEN IF e.entity = "jobfunction" THEN <<SlotSet("job_function", e.value)>> ELSE <<>>
    ELSE IF slot_to_fill = "budget"
    THEN IF e.entity \in {"number", "amount-of-money"}
         THEN <<SlotSet("budget", e.value)>> ELSE <<>>
    ELSE IF slot_to_fill = "person_name"
    THEN IF e.entity = "name" THEN <<SlotSet("person_name", e.value)>> ELSE <<>>
    ELSE IF slot_to_fill = "email"
    THEN IF e.entity = "email" THEN <<SlotSet("email", e.value)>> ELSE <<>>
    ELSE IF slot_to_fill = "company_name"
    THEN IF e.entity = "company" THEN <<SlotSet("company", e.value)>> ELSE <<>>
    ELSE <<>>

RECURSIVE ValidateLoop(_, _, _)
ValidateLoop(slot_to_fill, entities, evs) ==
    IF entities = <<>> THEN evs
    ELSE ValidateLoop(slot_to_fill, Tail(entities),
                      evs \o ValidateEntity(slot_to_fill, Head(entities)))

\* variant: the fallback test is `==` instead of `!=`
ValidateEvents_FallbackInverted(tracker_slots, msg) ==
    LET entities == msg.entities
        slot_to_fill == tracker_slots[REQUESTED_SLOT]
    IN  IF entities # <<>>
        THEN ValidateLoop(slot_to_fill, entities, <<>>)
        ELSE IF slot_to_fill = "email"
             THEN <<SlotSet(slot_to_fill, msg.text)>>
             ELSE <<>>

\* events collected by validate before it decides to return or raise
ValidateEvents(tracker_slots, msg) ==
    LET entities == msg.entities
        slot_to_fill == tracker_slots[REQUESTED_SLOT]
    IN  IF entities # <<>>
        THEN ValidateLoop(slot_to_fill, entities, <<>>)
        ELSE IF slot_to_fill # "email"
             THEN <<SlotSet(slot_to_fill, msg.text)>>
             ELSE <<>>

\* variant: validate returns the empty list instead of raising
ActionSalesForm_validate_NoRaise(tracker_slots, msg) ==
    Returns(ValidateEvents(tracker_slots, msg))

\* ActionSalesForm.validate
ActionSalesForm_validate(tracker_slots, msg) ==
    LET evs == ValidateEvents(tracker_slots, msg)
    IN  IF evs # <<>>
        THEN Returns(evs)
        ELSE Result(<<>>, <<>>,
                    ActionExecutionError(tracker_slots[REQUESTED_SLOT], ActionSalesForm_name),
                    <<>>)

\* ActionSalesForm.submit
ActionSalesForm_submit == Result(<<>>, <<"utter_confirm_salesrequest">>, NoError, <<>>)

(* ------------------------- dialogue manager --------------------------- *)

\* the dialogue manager applies the returned events to the tracker's slots
RECURSIVE ApplyEvents(_, _)
ApplyEvents(tracker_slots, evs) ==
    IF evs = <<>> THEN tracker_slots
    ELSE LET e == Head(evs)
         IN  ApplyEvents(IF e.event = "slot"
                         THEN [tracker_slots EXCEPT ![e.name] = e.value]
                         ELSE tracker_slots,
                         Tail(evs))

\* index of the first required slot that is still unset, 0 when all are set
FirstUnset(tracker_slots) ==
    LET unset == {i \in 1..Len(required_slots) : tracker_slots[required_slots[i]] = None}
    IN  IF unset = {} THEN 0 ELSE CHOOSE i \in unset : \A j \in unset : i <= j

\* slots as handed to the form: a requested slot and nothing filled yet
FormSlots(requested) == [EmptySlots EXCEPT ![REQUESTED_SLOT] = requested]

\* slots as handed to the store-sales-info action
SalesSlotValues == {None, "'acme'"}
SalesSlots ==
    {[s \in SlotNames |-> IF s \in RequiredSlotSet THEN f[s] ELSE None] :
        f \in [RequiredSlotSet -> SalesSlotValues]}

\* slots as handed to the subscription action
SubscribeSlots ==
    {[EmptySlots EXCEPT !["email"] = e, !["subscribed"] = s] :
        e \in EmailSlotValues, s \in SubscribedValues}

(* ------------------------------- state -------------------------------- *)

Init ==
    /\ action = "none"
    /\ slots = EmptySlots
    /\ latest_message = EmptyMessage
    /\ events = <<>>
    /\ utterances = <<>>
    /\ raised = NoError
    /\ calls = <<>>
    /\ successes = 0
    /\ submitted = FALSE

\* one webhook invocation: the tracker handed in and what the handler produced
Invoke(name, tracker_slots, msg, r) ==
    /\ action' = name
    /\ slots' = tracker_slots
    /\ latest_message' = msg
    /\ events' = r.events
    /\ utterances' = r.utterances
    /\ raised' = r.raised
    /\ calls' = r.calls
    /\ UNCHANGED <<successes, submitted>>

ActionSubscribeNewsletter ==
    /\ action = "none"
    /\ \E tracker_slots \in SubscribeSlots, api_result \in BOOLEAN :
        Invoke("action_subscribe_newsletter", tracker_slots, EmptyMessage,
               ActionSubscribeNewsletter_run(tracker_slots, api_result))

\* the dialogue manager has applied the events of a subscription run to the
\* tracker and runs the action again
ActionSubscribeNewsletterAgain ==
    /\ action = "action_subscribe_newsletter"
    /\ \E api_result \in BOOLEAN :
        LET tracker_slots == ApplyEvents(slots, events)
        IN  Invoke("action_subscribe_newsletter", tracker_slots, EmptyMessage,
                   ActionSubscribeNewsletter_run(tracker_slots, api_result))

ActionStoreSalesInfo ==
    /\ action = "none"
    /\ \E tracker_slots \in SalesSlots, date \in Dates, outcome \in StoreOutcomes :
        Invoke("action_store_sales_info", tracker_slots, EmptyMessage,
               ActionStoreSalesInfo_run(tracker_slots, date, outcome))

ActionStoreBudget ==
    /\ action = "none"
    /\ \E msg \in TurnMessages :
        Invoke("action_store_budget", EmptySlots, msg, ActionStoreBudget_run(msg))

ActionStoreUsecase ==
    /\ action = "none"
    /\ \E msg \in TurnMessages :
        Invoke("action_store_usecase", EmptySlots, msg, ActionStoreUsecase_run(msg))

ActionStoreName ==
    /\ action = "none"
    /\ \E msg \in TurnMessages :
        Invoke("action_store_name", EmptySlots, msg, ActionStoreName_run(msg))

ActionStoreCompany ==
    /\ action = "none"
    /\ \E msg \in TurnMessages :
        Invoke("action_store_company", EmptySlots, msg, ActionStoreCompany_run(msg))

ActionStoreJob ==
    /\ action = "none"
    /\ \E msg \in TurnMessages :
        Invoke("action_store_job", EmptySlots, msg, ActionStoreJob_run(msg))

ActionStoreEmail ==
    /\ action = "none"
    /\ \E msg \in TurnMessages :
        Invoke("action_store_email", EmptySlots, msg, ActionStoreEmail_run(msg))

ActionSalesFormValidate ==
    /\ action = "none"
    /\ \E requested \in RequiredSlotSet, msg \in TurnMessages :
        Invoke(ActionSalesForm_name, FormSlots(requested), msg,
               ActionSalesForm_validate(FormSlots(requested), msg))

\* the response has gone back to the dialogue manager; the server awaits the
\* next invocation
Respond ==
    /\ action # "none"
    /\ action' = "none"
    /\ slots' = EmptySlots
    /\ latest_message' = EmptyMessage
    /\ events' = <<>>
    /\ utterances' = <<>>
    /\ raised' = NoError
    /\ calls' = <<>>
    /\ UNCHANGED <<successes, submitted>>

Next ==
    \/ ActionSubscribeNewsletter
    \/ ActionSubscribeNewsletterAgain
    \/ ActionStoreSalesInfo
    \/ ActionStoreBudget
    \/ ActionStoreUsecase
    \/ ActionStoreName
    \/ ActionStoreCompany
    \/ ActionStoreJob
    \/ ActionStoreEmail
    \/ ActionSalesFormValidate
    \/ Respond

Spec == Init /\ [][Next]_vars

(* ------------------------- multi-turn form run ------------------------ *)

\* the messages of the turns of a form run: one raw text, and entities that
\* carry a string or the number 0
FormEntityValues == {"'acme'", "0"}
FormMessages ==
    [text : {"'hello there'"},
     entities : SeqsUpTo([entity : EntityTypes, value : FormEntityValues], FormMaxEntities)]

\* the form has been activated and asks for its first required slot
InitForm ==
    /\ action = "none"
    /\ slots = FormSlots(required_slots[1])
    /\ latest_message = EmptyMessage
    /\ events = <<>>
    /\ utterances = <<>>
    /\ raised = NoError
    /\ calls = <<>>
    /\ successes = 0
    /\ submitted = FALSE

\* a turn on which validate raises: nothing is applied, the pointer stays
FormTurnFails ==
    /\ ~submitted
    /\ \E msg \in FormMessages :
        LET r == ActionSalesForm_validate(slots, msg)
        IN  /\ r.raised # NoError
            /\ action' = ActionSalesForm_name
            /\ latest_message' = msg
            /\ events' = r.events
            /\ utterances' = r.utterances
            /\ raised' = r.raised
            /\ calls' = r.calls
            /\ UNCHANGED <<slots, successes, submitted>>

\* a turn on which validate returns events: the dialogue manager applies them,
\* then requests the first required slot still unset, or runs submit when
\* none is left
FormTurnSucceeds ==
    /\ ~submitted
    /\ successes < MaxTurns
    /\ \E msg \in FormMessages :
        LET r == ActionSalesForm_validate(slots, msg)
            applied == ApplyEvents(slots, r.events)
            nxt == FirstUnset(applied)
        IN  /\ r.raised = NoError
            /\ action' = ActionSalesForm_name
            /\ latest_message' = msg
            /\ events' = r.events
            /\ raised' = r.raised
            /\ calls' = r.calls
            /\ successes' = successes + 1
            /\ IF nxt = 0
               THEN /\ slots' = [applied EXCEPT ![REQUESTED_SLOT] = None]
                    /\ utterances' = r.utterances \o ActionSalesForm_submit.utterances
                    /\ submitted' = TRUE
               ELSE /\ slots' = [applied EXCEPT ![REQUESTED_SLOT] = required_slots[nxt]]
                    /\ utterances' = r.utterances
                    /\ submitted' = FALSE

NextForm ==
    \/ FormTurnFails
    \/ FormTurnSucceeds

SpecForm == InitForm /\ [][NextForm]_vars


(* ------------------------------ properties ---------------------------- *)

\* the entity types the form accepts for a requested slot
ExpectedEntityTypes(slot) ==
    CASE slot = "job_function" -> {"jobfunction"}
      [] slot = "budget" -> {"number", "amount-of-money"}
      [] slot = "person_name" -> {"name"}
      [] slot = "email" -> {"email"}
      [] slot = "company_name" -> {"company"}
      [] OTHER -> {}

\* the entities of the latest message the form accepts for a requested slot
MatchingEntities(slot) ==
    SelectSeq(latest_message.entities, LAMBDA e : e.entity \in ExpectedEntityTypes(slot))

ValidateRan == action = ActionSalesForm_name
Requested == slots[REQUESTED_SLOT]

\* C1: every set-slot event returned by validate names the slot held in the
\* requested-slot pointer; validate proposes no value for any other slot.
C1_ValidateNamesRequestedSlot ==
    ValidateRan =>
        \A i \in DOMAIN events :
            events[i].event = "slot" /\ events[i].name = Requested

\* C2: validate fails exactly when it produced no event, that is when entities
\* are present but none has the type expected for the requested slot, or when
\* there are none and the requested slot is email; the failure names the
\* requested slot and "action_sales_form" and no event is returned; in every
\* other case validate returns a non-empty event list and does not fail.
C2_ValidateFailsExactlyWhenNoEvent ==
    ValidateRan =>
        LET entities == latest_message.entities
            noneMatches == entities # <<>> /\ MatchingEntities(Requested) = <<>>
            emailNoEntity == entities = <<>> /\ Requested = "email"
        IN  /\ (raised # NoError) <=> (noneMatches \/ emailNoEntity)
            /\ raised # NoError =>
                   /\ raised = ActionExecutionError(Requested, "action_sales_form")
                   /\ events = <<>>
            /\ raised = NoError => events # <<>>

C2_Witness ==
    /\ ValidateRan
    /\ Requested = "budget"
    /\ Len(latest_message.entities) = 2
    /\ raised = ActionExecutionError("budget", "action_sales_form")

\* C3: with an empty entity list and a requested slot other than email,
\* validate returns exactly one event: set the requested slot to the raw text.
C3_ValidateFallsBackToText ==
    (ValidateRan /\ latest_message.entities = <<>> /\ Requested # "email") =>
        /\ raised = NoError
        /\ events = <<SlotSet(Requested, latest_message.text)>>

C3_Witness ==
    /\ ValidateRan
    /\ latest_message.entities = <<>>
    /\ Requested = "company_name"
    /\ events = <<SlotSet("company_name", "'hello there'")>>

\* C4: whenever the spreadsheet call raises, store-sales-info returns exactly
\* one event setting data_stored to false and no exception escapes; when the
\* call does not raise it returns exactly one event setting data_stored to true.
C4_StoreFailureAbsorbed ==
    action = "action_store_sales_info" =>
        /\ raised = NoError
        /\ Len(calls) = 1
        /\ events = <<SlotSet("data_stored", PyBool(calls[1].outcome = "ok"))>>

\* the slot a slot-extraction action writes and the entity type it looks up
ExtractorSlot ==
    [action_store_name |-> "person_name", action_store_company |-> "company_name",
     action_store_job |-> "job_function", action_store_email |-> "email"]
ExtractorEntity ==
    [action_store_name |-> "name", action_store_company |-> "company",
     action_store_job |-> "jobfunction", action_store_email |-> "email"]

EntitiesOfType(types) == SelectSeq(latest_message.entities, LAMBDA e : e.entity \in types)

\* C5: whenever an entity of a slot-extraction action's type is present, the
\* single set-slot event it returns carries that entity's value, whatever the
\* value is (an empty string and the number 0 included), never the raw text.
C5_ExtractorUsesEntityValue ==
    /\ action \in DOMAIN ExtractorSlot =>
           LET found == EntitiesOfType({ExtractorEntity[action]})
           IN  found # <<>> => events = <<SlotSet(ExtractorSlot[action], found[1].value)>>
    /\ action = "action_store_budget" =>
           LET found == EntitiesOfType({"number", "amount-of-money"})
           IN  found # <<>> =>
                   /\ Len(events) = 1
                   /\ events[1].event = "slot"
                   /\ events[1].name = "budget"
                   /\ \E i \in DOMAIN found : events[1].value = found[i].value

\* C6: the budget action sets budget to the first number entity's value
\* whenever a number entity is present, whatever the value; to the first
\* amount-of-money value only when no number entity is present; to the raw
\* text only when neither is present.
C6_BudgetNumberFirst ==
    action = "action_store_budget" =>
        LET numbers == EntitiesOfType({"number"})
            amounts == EntitiesOfType({"amount-of-money"})
            expected == IF numbers # <<>> THEN numbers[1].value
                        ELSE IF amounts # <<>> THEN amounts[1].value
                        ELSE latest_message.text
        IN  events = <<SlotSet("budget", expected)>>

\* C7: the email action, on a turn with no email entity, sends exactly one
\* prompt and returns exactly one revert event and no set-slot event; on a turn
\* with an email entity it sends no message and returns exactly one event
\* setting the email slot.
C7_EmailSetOrRevert ==
    action = "action_store_email" =>
        LET found == EntitiesOfType({"email"})
        IN  IF found = <<>>
            THEN utterances = <<EmailPrompt>> /\ events = <<UserUtteranceReverted>>
            ELSE /\ utterances = <<>>
                 /\ Len(events) = 1
                 /\ events[1].event = "slot"
                 /\ events[1].name = "email"

SubscribeRan == action = "action_subscribe_newsletter"
EmailAbsent == slots["email"] \in {None, "''"}

\* what a subscription run returns for the tracker it was handed
C8_SubscribeOutput ==
    SubscribeRan =>
        IF EmailAbsent
        THEN calls = <<>> /\ events = <<>>
        ELSE /\ Len(calls) = 1
             /\ calls[1].service = "subscribe_user"
             /\ calls[1].args = <<mailchimp_list, slots["email"]>>
             /\ calls[1].outcome \in {PyTrue, PyFalse}
             /\ events = <<SlotSet("subscribed", calls[1].outcome)>>

\* C8: with the email slot unset or empty the subscription action calls no
\* service and returns no events, so running it again leaves the subscribed
\* slot as it was; with the email slot present it makes exactly one subscribe
\* call with the configured list and that email and returns exactly one event
\* setting subscribed to the call's boolean result.
C8_SubscribeNoOpWithoutEmail ==
    /\ []C8_SubscribeOutput
    /\ [][(SubscribeRan /\ EmailAbsent /\ SubscribeRan')
            => slots'["subscribed"] = slots["subscribed"]]_vars

C8_Witness ==
    /\ SubscribeRan
    /\ slots["email"] = "''"
    /\ slots["subscribed"] = PyTrue
    /\ calls = <<>>

\* C9: with a non-empty entity list validate returns one event per entity of
\* the type expected for the requested slot, in entity-list order, each with
\* that entity's value, and none for any other entity; the raw text is not
\* used, and use_case yields no event.
C9_ValidateFiltersEntities ==
    (ValidateRan /\ latest_message.entities # <<>>) =>
        LET matching == MatchingEntities(Requested)
        IN  /\ Len(events) = Len(matching)
            /\ \A i \in DOMAIN events :
                   events[i].event = "slot" /\ events[i].value = matching[i].value
            /\ Requested = "use_case" => events = <<>>

C9_Witness ==
    /\ ValidateRan
    /\ Requested = "budget"
    /\ Len(latest_message.entities) = 2
    /\ Len(events) = 2
    /\ events[1].value # events[2].value

\* C10: in a form run every turn on which validate returns events fills the
\* slot that was requested, so the pointer moves off that slot, and the form
\* reaches submit after exactly six successful turns.
C10_FormProgress ==
    [][/\ successes' > successes =>
              /\ slots'[Requested] # None
              /\ slots'[REQUESTED_SLOT] # Requested
       /\ submitted' => successes' = Len(required_slots)]_vars

====
